---- MODULE Spec2Model ----
(***************************************************************************)
(* A model of model/text_summarization/pointer_generator.py: the Encoder,  *)
(* Attention, Decoder and PointerGeneratorNetwork modules and the decode   *)
(* loop of PointerGeneratorNetwork.forward.                                *)
(*                                                                         *)
(* Tensors are records [shape, data]: data is the row-major (contiguous)   *)
(* layout torch uses, so that view / permute / unsqueeze / expand / cat /  *)
(* bmm act on indices exactly as in the source.  Numbers are exact         *)
(* rationals <<n, d>>.  The transcendental functions (tanh, exp) and the   *)
(* LSTM cell of torch are replaced by small saturating integer-valued      *)
(* surrogates; the learned parameters are fixed small integers.            *)
(***************************************************************************)
EXTENDS Integers, Sequences, FiniteSets, TLC

(* ---------------- bounds of the explored inputs ---------------- *)
MaxSourceLen == 2
MaxBatch == 2
MaxSummaryLength == 3

(* ---------------- configuration (scaled down) ------------------ *)
\* PointerGeneratorNetwork(vocab_size, batch_size, max_summary_length,
\*                         embedding_dim = 128, hidden_size = 256)
vocab_size == 3
embedding_dim == 1
hidden_size == 1

(* ---------------- exact rational arithmetic -------------------- *)
RECURSIVE GCD(_, _)
GCD(a, b) == IF b = 0 THEN a ELSE GCD(b, a % b)

Abs(n) == IF n < 0 THEN -n ELSE n

Rat(n, d) == LET g == GCD(Abs(n), d) IN <<n \div g, d \div g>>

Num(n) == <<n, 1>>

Zero == <<0, 1>>

One == <<1, 1>>

RAdd(a, b) == Rat(a[1] * b[2] + b[1] * a[2], a[2] * b[2])

RScale(k, a) == Rat(k * a[1], a[2])

RMul(a, b) == Rat(a[1] * b[1], a[2] * b[2])

RDiv(k, z) == Rat(k, z)

RFloor(a) == a[1] \div a[2]

RLeq(a, b) == a[1] * b[2] <= b[1] * a[2]

RECURSIVE RSum(_)
RSum(s) == IF s = <<>> THEN Zero ELSE RAdd(Head(s), RSum(Tail(s)))

Clamp(n, lo, hi) == IF n < lo THEN lo ELSE IF n > hi THEN hi ELSE n

(* ---------------- tensors -------------------------------------- *)
\* the sequence f with every element evaluated (contiguous storage)
Contiguous(f) == f \o <<>>

Numel(t) == Len(t.data)

Tensor2(rows, cols, F(_, _)) ==
    [shape |-> <<rows, cols>>,
     data  |-> Contiguous([n \in 1..(rows * cols) |->
                             F((n - 1) \div cols, (n - 1) % cols)])]

Tensor3(d0, d1, d2, F(_, _, _)) ==
    [shape |-> <<d0, d1, d2>>,
     data  |-> Contiguous([n \in 1..(d0 * d1 * d2) |->
                  F((n - 1) \div (d1 * d2), ((n - 1) \div d2) % d1, (n - 1) % d2)])]

Get2(t, i, j) == t.data[i * t.shape[2] + j + 1]

Get3(t, i, j, k) == t.data[(i * t.shape[2] + j) * t.shape[3] + k + 1]

\* tensor.view(-1, cols) / utils.View(-1, cols): same storage, rows inferred
View(t, cols) == [shape |-> <<Numel(t) \div cols, cols>>, data |-> t.data]

\* utils.Unsqueeze(0) on a 2-D tensor
Unsqueeze0(t) == [shape |-> <<1, t.shape[1], t.shape[2]>>, data |-> t.data]

\* utils.Unsqueeze(1) on a 2-D tensor
Unsqueeze1(t) == [shape |-> <<t.shape[1], 1, t.shape[2]>>, data |-> t.data]

\* permute(1, 0) of a 2-D tensor
Permute10(t) == Tensor2(t.shape[2], t.shape[1], LAMBDA i, j : Get2(t, j, i))

\* permute(1, 0, 2) / transpose(0, 1) of a 3-D tensor
Permute102(t) ==
    Tensor3(t.shape[2], t.shape[1], t.shape[3], LAMBDA i, j, k : Get3(t, j, i, k))

\* expand(n, b, f) of a [1, b, f] tensor, made contiguous
Expand(t, n) ==
    Tensor3(n, t.shape[2], t.shape[3], LAMBDA i, j, k : Get3(t, 0, j, k))

\* torch.cat((a, b), dim=1) of 2-D tensors with the same number of rows
Cat1(a, b) ==
    Tensor2(a.shape[1], a.shape[2] + b.shape[2],
            LAMBDA i, j : IF j < a.shape[2] THEN Get2(a, i, j)
                          ELSE Get2(b, i, j - a.shape[2]))

\* elementwise a + b of same-shape tensors
Add(a, b) ==
    [shape |-> a.shape,
     data  |-> Contiguous([n \in 1..Numel(a) |-> RAdd(a.data[n], b.data[n])])]

Zeros2(rows, cols) == Tensor2(rows, cols, LAMBDA i, j : Zero)


\* nn.Tanh surrogate: saturating, odd, values in {-1, 0, 1}
Tanh(q) == Num(Clamp(RFloor(q), -1, 1))

\* nn.ReLU
ReLU(q) == IF q[1] < 0 THEN Zero ELSE q

\* exp surrogate used by nn.Softmax: positive and non-decreasing
Exp(q) == CASE RFloor(q) < 0 -> 1
            [] RFloor(q) = 0 -> 2
            [] OTHER         -> 4

\* nn.Tanh() applied to a tensor
MapTanh(t) ==
    [shape |-> t.shape, data |-> Contiguous([n \in 1..Numel(t) |-> Tanh(t.data[n])])]

\* nn.ReLU() applied to a tensor
MapReLU(t) ==
    [shape |-> t.shape, data |-> Contiguous([n \in 1..Numel(t) |-> ReLU(t.data[n])])]

\* nn.Softmax(dim=0) of a 2-D tensor: each column is normalised over the rows
Softmax0(t) ==
    Tensor2(t.shape[1], t.shape[2],
            LAMBDA i, j : RDiv(Exp(Get2(t, i, j)),
                               RSum([r \in 1..t.shape[1] |-> Num(Exp(Get2(t, r - 1, j)))])[1]))

\* nn.Softmax(dim=1) of a 2-D tensor: each row is normalised over the columns
Softmax1(t) ==
    Tensor2(t.shape[1], t.shape[2],
            LAMBDA i, j : RDiv(Exp(Get2(t, i, j)),
                               RSum([c \in 1..t.shape[2] |-> Num(Exp(Get2(t, i, c - 1)))])[1]))

\* torch.bmm(a, b): a is [B, 1, S], b is [B, S, F]; result [B, 1, F]
Bmm(a, b) ==
    Tensor3(a.shape[1], 1, b.shape[3],
            LAMBDA n, r, f : RSum([s \in 1..b.shape[2] |->
                                     RMul(Get3(a, n, 0, s - 1), Get3(b, n, s - 1, f))]))

(* ---------------- learned parameters --------------------------- *)
\* The parameters are created once at construction and only read by forward.
\* Weight(tag, o, i) is entry (o, i) of the weight matrix of layer `tag`,
\* Bias(tag, o) entry o of its bias: fixed integers in {-1, 0, 1}.
Weight(tag, o, i) == ((tag + o + 2 * i) % 3) - 1

Bias(tag, o) == ((tag + o) % 2)

\* nn.Linear(n_in, n_out) on a [rows, n_in] tensor; wtag and btag name the
\* layer's weight matrix and bias (btag < 0: the bias is zero)
Linear(wtag, btag, n_out, t) ==
    Tensor2(t.shape[1], n_out,
            LAMBDA r, o : RAdd(Num(IF btag < 0 THEN 0 ELSE Bias(btag, o)),
                               RSum([i \in 1..t.shape[2] |->
                                       RScale(Weight(wtag, o, i - 1),
                                              Get2(t, r, i - 1))])))

\* nn.Embedding(vocab_size, embedding_dim, padding_idx=0): row 0 is the zero vector
EmbeddingRow(tag, token, j) ==
    IF token = 0 THEN Zero ELSE Num(((token + j + tag) % 2) * 2 - 1)

\* embedding of a [S, B] token tensor: [S, B, embedding_dim]
Embedding2(tag, x_in) ==
    Tensor3(x_in.shape[1], x_in.shape[2], embedding_dim,
            LAMBDA s, b, j : EmbeddingRow(tag, Get2(x_in, s, b), j))

\* embedding of a [B] token tensor: [B, embedding_dim]
Embedding1(tag, x_in) ==
    Tensor2(x_in.shape[1], embedding_dim,
            LAMBDA b, j : EmbeddingRow(tag, x_in.data[b + 1], j))

(* ---------------- nn.LSTM surrogate ---------------------------- *)
\* One cell step for one batch element.  x is the input vector, st = [h, c]
\* the previous state (sequences of length hidden_size).  Like torch's cell
\* the new state depends on x, h and c of the same batch element only.
\* The new cell vector is the saturated sum of the old one and a linear map
\* of x and h; the new hidden vector is its Tanh.
LSTMCellState(tag, x, st) ==
    LET pre(j) == RAdd(Num(Bias(tag, j)),
                       RAdd(RSum([i \in 1..Len(x) |-> RScale(Weight(tag, j, i), x[i])]),
                            RSum([k \in 1..Len(st.h) |->
                                    RScale(Weight(tag + 1, j, k), st.h[k])])))
    IN  Contiguous([j \in 1..hidden_size |->
                      Num(Clamp(RFloor(RAdd(st.c[j], pre(j))), -2, 2))])

LSTMHidden(c) == [h |-> Contiguous([j \in 1..hidden_size |-> Tanh(c[j])]), c |-> c]

LSTMCell(tag, x, st) == LSTMHidden(LSTMCellState(tag, x, st))

ZeroState == [h |-> [j \in 1..hidden_size |-> Zero], c |-> [j \in 1..hidden_size |-> Zero]]

\* state of direction dir (0 forward, 1 backward) of the bidirectional LSTM
\* after it consumed position s of batch element b of x ([S, B, E])
RECURSIVE EncoderLSTMState(_, _, _, _)
EncoderLSTMState(x, b, s, dir) ==
    LET S    == x.shape[1]
        xin  == [j \in 1..x.shape[3] |-> Get3(x, s, b, j - 1)]
        prev == IF dir = 0
                THEN (IF s = 0 THEN ZeroState ELSE EncoderLSTMState(x, b, s - 1, dir))
                ELSE (IF s = S - 1 THEN ZeroState ELSE EncoderLSTMState(x, b, s + 1, dir))
    IN  LSTMCell(2 + dir, xin, prev)

\* the states of both directions at every position of every batch element:
\* entry (d * B + b) * S + s + 1 is the state of direction d after position s
EncoderLSTMStates(x) ==
    Contiguous([n \in 1..(2 * x.shape[2] * x.shape[1]) |->
                  EncoderLSTMState(x, ((n - 1) \div x.shape[1]) % x.shape[2],
                                   (n - 1) % x.shape[1],
                                   (n - 1) \div (x.shape[1] * x.shape[2]))])

\* the tensors nn.LSTM returns: output [S, B, 2H], h_n and c_n [2, B, H]
Encoder_lstm_output(S, B, st) ==
    LET H == hidden_size
        at(d, b, s) == st[(d * B + b) * S + s + 1]
        last(d) == IF d = 0 THEN S - 1 ELSE 0
    IN  [out    |-> Tensor3(S, B, 2 * H,
                      LAMBDA s, b, f : IF f < H THEN at(0, b, s).h[f + 1]
                                       ELSE at(1, b, s).h[f - H + 1]),
         hidden |-> Tensor3(2, B, H, LAMBDA d, b, j : at(d, b, last(d)).h[j + 1]),
         cell   |-> Tensor3(2, B, H, LAMBDA d, b, j : at(d, b, last(d)).c[j + 1])]

\* nn.LSTM(bidirectional=True)(x), x [S, B, E]
Encoder_lstm(x) == Encoder_lstm_output(x.shape[1], x.shape[2], EncoderLSTMStates(x))

\* the new state of every batch element after the one step
DecoderLSTMStates(x, hidden_in) ==
    Contiguous([n \in 1..x.shape[2] |->
        LSTMCell(5,
                 [j \in 1..x.shape[3] |-> Get3(x, 0, n - 1, j - 1)],
                 [h |-> [j \in 1..hidden_size |-> Get3(hidden_in[1], 0, n - 1, j - 1)],
                  c |-> [j \in 1..hidden_size |-> Get3(hidden_in[2], 0, n - 1, j - 1)]])])

\* the tensors nn.LSTM returns: output, h_n and c_n, all [1, B, H]
Decoder_lstm_output(B, st) ==
    [out    |-> Tensor3(1, B, hidden_size, LAMBDA s, b, j : st[b + 1].h[j + 1]),
     hidden |-> Tensor3(1, B, hidden_size, LAMBDA s, b, j : st[b + 1].h[j + 1]),
     cell   |-> Tensor3(1, B, hidden_size, LAMBDA s, b, j : st[b + 1].c[j + 1])]

\* nn.LSTM()(x, (h0, c0)) on a one-step input x [1, B, E]; h0, c0 are [1, B, H]
Decoder_lstm(x, hidden_in) == Decoder_lstm_output(x.shape[2], DecoderLSTMStates(x, hidden_in))

(* ---------------- Encoder -------------------------------------- *)
\* self.linear = Sequential(View(-1, 2H), Linear(2H, 2H))
Encoder_linear(x) ==
    Linear(2, 0, 2 * hidden_size,
           View(x, 2 * hidden_size))

\* self.reduce_hidden = Sequential(View(-1, 2H), Linear(2H, H), ReLU, Unsqueeze(0))
Encoder_reduce_hidden(hidden) ==
    Unsqueeze0(MapReLU(Linear(2, 1, hidden_size, View(hidden, 2 * hidden_size))))

\* self.reduce_cell = Sequential(View(-1, 2H), Linear(2H, H), ReLU, Unsqueeze(0))
Encoder_reduce_cell(cell) ==
    Unsqueeze0(MapReLU(Linear(0, 1, hidden_size, View(cell, 2 * hidden_size))))

\* (mutation) the transpose is left out
Encoder_transpose_none(state) == state

\* hidden.transpose(0, 1).contiguous() and cell.transpose(0, 1).contiguous()
Encoder_transpose(state) == Permute102(state)

\* lines 34-43 of Encoder.forward: r is what self.lstm returned
Encoder_output(r) ==
    [x      |-> Permute102(r.out),
     x_out  |-> Encoder_linear(r.out),
     hidden |-> <<Encoder_reduce_hidden(Encoder_transpose(r.hidden)),
                  Encoder_reduce_cell(Encoder_transpose(r.cell))>>]

\* Encoder.forward(x_in): x_in is [S, B]; returns
\*   x [B, S, 2H], x_out [S*B, 2H], (hidden, cell) both [1, B, H]
Encoder_forward(x_in) == Encoder_output(Encoder_lstm(Embedding2(0, x_in)))

(* ---------------- Attention ------------------------------------ *)
\* self.features = Sequential(Linear(2H, 2H), Unsqueeze(0))
Attention_features(hidden) ==
    Unsqueeze0(Linear(1, 0,
                      2 * hidden_size, hidden))

\* self.coverage = Sequential(View(-1, 1), Linear(1, 2H))
Attention_coverage(coverage) ==
    Linear(2, 1,
           2 * hidden_size, View(coverage, 1))

\* Linear(2H, 1) of self.attention: the score of one row
Attention_score(t) ==
    Linear(0, -1, 1, t)

\* (mutation) Softmax(dim=1): normalises across the batch
Attention_attention_dim1(t, batch_size) ==
    Unsqueeze1(Permute10(Softmax1(View(Attention_score(MapTanh(t)), batch_size))))

\* self.attention = Sequential(Tanh, Linear(2H, 1), View(-1, batch_size),
\*                             Softmax(dim=0), Permute(1, 0), Unsqueeze(1))
Attention_attention(t, batch_size) ==
    Unsqueeze1(Permute10(Softmax0(View(Attention_score(MapTanh(t)), batch_size))))

\* (mutation) coverage = attention
Attention_coverage_next_reset(coverage, attention) == attention

\* coverage = coverage + attention
Attention_coverage_next(coverage, attention) == Add(coverage, attention)

\* lines 80-82: attention is the permuted attention, [S, B]
Attention_update(attention, coverage) ==
    [attention |-> attention, coverage |-> Attention_coverage_next(coverage, attention)]

\* lines 77-82 of Attention.forward: attention0 is what self.attention
\* returned, [B, 1, S]
Attention_output(attention0, encoder_out, coverage) ==
    [context |-> View(Bmm(attention0, encoder_out), 2 * hidden_size),
     update  |-> Attention_update(Permute10(View(attention0, encoder_out.shape[2])),
                                  coverage)]

\* Attention.forward(hidden, encoder_out, encoder_features, coverage)
\*   hidden [B, 2H], encoder_out [B, S, 2H], encoder_features [S*B, 2H],
\*   coverage [S, B]; returns context [B, 2H], attention [S, B], coverage [S, B]
Attention_forward(hidden, encoder_out, encoder_features, coverage, batch_size) ==
    LET sequence_len      == encoder_out.shape[2]
        width             == encoder_out.shape[3]
        decoder_features  == View(Expand(Attention_features(hidden), sequence_len), width)
        coverage_features == Attention_coverage(coverage)
    IN  Attention_output(
            Attention_attention(Add(Add(encoder_features, decoder_features),
                                    coverage_features),
                                batch_size),
            encoder_out, coverage)

(* ---------------- Decoder -------------------------------------- *)
\* self.context = Sequential(Linear(2H + E, E), Unsqueeze(0))
Decoder_context(x) ==
    Unsqueeze0(Linear(2, 0,
                      embedding_dim, x))

\* (mutation) Softmax(dim=0)
Decoder_out_dim0(x) ==
    Softmax0(Linear(2, 0, vocab_size,
                    Linear(2, 1,
                           hidden_size, x)))

\* self.out = Sequential(Linear(3H, H), Linear(H, vocab_size), Softmax(dim=1))
Decoder_out(x) ==
    Softmax1(Linear(2, 0, vocab_size,
                    Linear(2, 1,
                           hidden_size, x)))

\* lines 115-119 of Decoder.forward: x is the LSTM output, a what
\* self.attention returned
Decoder_output(x, hidden_out, a) ==
    [ok            |-> TRUE,
     x             |-> Decoder_out(Cat1(View(x, hidden_size), a.context)),
     hidden_out    |-> hidden_out,
     context       |-> a.context,
     attention     |-> a.update.attention,
     coverage_next |-> a.update.coverage]

\* hidden_out = torch.cat((hidden.view(-1, H), cell.view(-1, H)), dim=1)
Decoder_hidden_out(hidden, cell) == Cat1(View(hidden, hidden_size), View(cell, hidden_size))

\* lines 110-113 of Decoder.forward: r is what self.lstm returned
Decoder_attend(r, encoder_out, encoder_features, coverage, batch_size) ==
    Decoder_output(r.out, Decoder_hidden_out(r.hidden, r.cell),
                   Attention_forward(Decoder_hidden_out(r.hidden, r.cell), encoder_out,
                                     encoder_features, coverage, batch_size))

\* Decoder.forward(x_in, hidden_in, encoder_out, encoder_features, context, coverage)
\*   x_in [B], hidden_in ([1, B, H], [1, B, H]), context [B, 2H], coverage [S, B].
\* ok = FALSE stands for the RuntimeError torch raises: torch.cat needs the
\* same number of rows in context and the embedded input, and nn.LSTM needs
\* the batch width of hidden_in to be that of its input.
Decoder_forward(x_in, hidden_in, encoder_out, encoder_features, context, coverage, batch_size) ==
    IF context.shape[1] # x_in.shape[1] \/ hidden_in[1].shape[2] # x_in.shape[1]
    THEN [ok |-> FALSE]
    ELSE Decoder_attend(
             Decoder_lstm(Decoder_context(Cat1(context, Embedding1(1, x_in))), hidden_in),
             encoder_out, encoder_features, coverage, batch_size)

(* ---------------- PointerGeneratorNetwork.forward --------------- *)
VARIABLES
    texts,               \* argument: source tokens, [S, B]
    summaries,           \* argument: target tokens, [T, B]
    batch_size,          \* self.batch_size
    max_summary_length,  \* self.max_summary_length
    pc,                  \* "start", "loop", "done" or "failed" (an exception left forward)
    i,                   \* the loop counter of `for i in range(self.max_summary_length)`
    encoder_out, encoder_features, hidden, context, coverage,
    decoder_hidden,      \* the local assigned from the Decoder's second result
    outputs, attention_list, coverage_list,
    calls,               \* log of the Decoder calls: arguments and results of each step
    result               \* what forward returned; <<>> while it has returned nothing

vars == <<texts, summaries, batch_size, max_summary_length, pc, i, encoder_out,
          encoder_features, hidden, context, coverage, decoder_hidden, outputs,
          attention_list, coverage_list, calls, result>>

NoTensor == [shape |-> <<>>, data |-> <<>>]

NoResult == <<>>

\* an input token tensor [rows, cols]; column b holds the tokens
\* (seed + b), (seed + b + 1), ... modulo vocab_size, so id 0 (padding) occurs
Tokens(rows, cols, seed) ==
    Tensor2(rows, cols, LAMBDA r, b : (seed + r + b) % vocab_size)

\* summaries[i, :]
Row(t, r) == [shape |-> <<t.shape[2]>>,
              data  |-> Contiguous([b \in 1..t.shape[2] |-> Get2(t, r, b - 1)])]

\* (mutation) the first row at every step
DecoderInput_first(summ, step) == Row(summ, 0)

\* decoder_input = summaries[i, :]
DecoderInput(summ, step) == Row(summ, step)

\* (mutation) torch.ones_like
InitialCoverage_ones(txt) == Tensor2(txt.shape[1], txt.shape[2], LAMBDA r, b : One)

\* coverage = torch.zeros_like(texts, dtype=torch.float)
InitialCoverage(txt) == Zeros2(txt.shape[1], txt.shape[2])

\* the state passed to the Decoder as hidden_in at a step: forward passes the
\* local `hidden`, which only the Encoder call assigns
DecoderState(enc_hidden, dec_hidden) == enc_hidden

\* (mutation) range(self.max_summary_length - 1)
InRange_short(step, max_len) == step < max_len - 1

\* for i in range(self.max_summary_length): whether iteration i runs
InRange(step, max_len) == step < max_len

\* (mutation) the exception is swallowed and the loop goes on
Raise_swallowed(L) == [L EXCEPT !.i = L.i + 1]

\* an exception raised inside the loop body leaves forward: nothing is returned
Raise(L) == [L EXCEPT !.pc = "failed"]

\* lines 135-140: the locals of forward when the loop is entered
Forward_locals(e, txt, bsz) ==
    [pc |-> "loop", i |-> 0,
     encoder_out |-> e.x, encoder_features |-> e.x_out, hidden |-> e.hidden,
     context |-> Zeros2(bsz, 2 * hidden_size),
     coverage |-> InitialCoverage(txt),
     decoder_hidden |-> NoTensor,
     outputs |-> <<>>, attention_list |-> <<>>, coverage_list |-> <<>>,
     calls |-> <<>>]

Forward_begin(txt, bsz) == Forward_locals(Encoder_forward(txt), txt, bsz)

\* lines 147-149: r is what self.decoder returned
Forward_append(L, decoder_input, hidden_in, r) ==
    IF ~r.ok                            \* the Decoder raised
    THEN Raise(L)
    ELSE [L EXCEPT !.i = L.i + 1,
               !.decoder_hidden = r.hidden_out,
               !.context = r.context,
               !.coverage = r.coverage_next,
               !.outputs = Append(L.outputs, r.x),
               !.attention_list = Append(L.attention_list, r.attention),
               !.coverage_list = Append(L.coverage_list, r.coverage_next),
               !.calls = Append(L.calls,
                            [x_in        |-> decoder_input,
                             hidden_in   |-> hidden_in,
                             context_in  |-> L.context,
                             coverage_in |-> L.coverage,
                             x           |-> r.x,
                             hidden_out  |-> r.hidden_out,
                             context     |-> r.context,
                             attention   |-> r.attention,
                             coverage    |-> r.coverage_next])]

\* the call of self.decoder with the arguments forward passes (lines 144-146)
Forward_decode(L, decoder_input, hidden_in, bsz) ==
    Forward_append(L, decoder_input, hidden_in,
                   Decoder_forward(decoder_input, hidden_in, L.encoder_out,
                                   L.encoder_features, L.context, L.coverage, bsz))

\* lines 143-149: one iteration of the loop on the locals L
Forward_step(L, summ, bsz) ==
    IF L.i >= summ.shape[1]              \* summaries[i, :] raises IndexError
    THEN Raise(L)
    ELSE Forward_decode(L, DecoderInput(summ, L.i),
                        DecoderState(L.hidden, L.decoder_hidden), bsz)

Locals == [pc |-> pc, i |-> i, encoder_out |-> encoder_out,
           encoder_features |-> encoder_features, hidden |-> hidden,
           context |-> context, coverage |-> coverage,
           decoder_hidden |-> decoder_hidden, outputs |-> outputs,
           attention_list |-> attention_list, coverage_list |-> coverage_list,
           calls |-> calls]

SetLocals(L) ==
    /\ pc' = L.pc
    /\ i' = L.i
    /\ encoder_out' = L.encoder_out
    /\ encoder_features' = L.encoder_features
    /\ hidden' = L.hidden
    /\ context' = L.context
    /\ coverage' = L.coverage
    /\ decoder_hidden' = L.decoder_hidden
    /\ outputs' = L.outputs
    /\ attention_list' = L.attention_list
    /\ coverage_list' = L.coverage_list
    /\ calls' = L.calls

Init ==
    /\ batch_size \in 1..MaxBatch
    /\ max_summary_length \in 1..MaxSummaryLength
    /\ \E S \in 1..MaxSourceLen, B \in 1..MaxBatch, seed \in 0..(vocab_size - 1) :
          texts = Tokens(S, B, seed)
    /\ \E T \in (max_summary_length - 1)..(max_summary_length + 1),
          B \in 1..MaxBatch, seed \in 0..(vocab_size - 1) :
          /\ T >= 1
          /\ summaries = Tokens(T, B, seed)
    /\ pc = "start"
    /\ i = 0
    /\ encoder_out = NoTensor
    /\ encoder_features = NoTensor
    /\ hidden = <<>>
    /\ context = NoTensor
    /\ coverage = NoTensor
    /\ decoder_hidden = NoTensor
    /\ outputs = <<>>
    /\ attention_list = <<>>
    /\ coverage_list = <<>>
    /\ calls = <<>>
    /\ result = NoResult

\* lines 134-140
Begin ==
    /\ pc = "start"
    /\ SetLocals(Forward_begin(texts, batch_size))
    /\ UNCHANGED <<texts, summaries, batch_size, max_summary_length, result>>

\* lines 142-149: one iteration of the decode loop
Step ==
    /\ pc = "loop"
    /\ InRange(i, max_summary_length)
    /\ SetLocals(Forward_step(Locals, summaries, batch_size))
    /\ UNCHANGED <<texts, summaries, batch_size, max_summary_length, result>>

\* line 151: return outputs, attention_list, coverage_list
Return ==
    /\ pc = "loop"
    /\ ~InRange(i, max_summary_length)
    /\ pc' = "done"
    /\ result' = <<outputs, attention_list, coverage_list>>
    /\ UNCHANGED <<texts, summaries, batch_size, max_summary_length, i, encoder_out,
                   encoder_features, hidden, context, coverage, decoder_hidden,
                   outputs, attention_list, coverage_list, calls>>

Next == Begin \/ Step \/ Return

Spec == Init /\ [][Next]_vars

(* ---------------- properties ----------------------------------- *)
Steps == 1..Len(calls)

\* the inputs have the shapes the configuration asks for
ValidInputs ==
    /\ texts.shape[2] = batch_size
    /\ summaries.shape[2] = batch_size
    /\ summaries.shape[1] = max_summary_length

\* elementwise sum of the first n tensors of list, starting from zero
RECURSIVE SumOf(_, _, _)
SumOf(list, n, zero) == IF n = 0 THEN zero ELSE Add(SumOf(list, n - 1, zero), list[n])

ZerosLike(t) == Zeros2(t.shape[1], t.shape[2])

\* C1 as stated: the returned coverages[t] is the sum of attentions[0..t-1]
\* (so coverages[0] is all zeros and coverages[2] = attentions[0] + attentions[1]).
C1_ReturnedCoverageExcludesStep ==
    \A t \in 1..Len(coverage_list) :
        coverage_list[t] = SumOf(attention_list, t - 1, ZerosLike(coverage_list[t]))

\* C1 amended: the coverage passed into step t is the sum of attentions[0..t-1]
\* (zeros at step 0), and the returned coverages[t] is the coverage after step
\* t, the sum of attentions[0..t]; the returned lists are these lists.
C1_ReturnedCoverageIncludesStep ==
    /\ \A t \in Steps :
          /\ calls[t].coverage_in = SumOf(attention_list, t - 1, ZerosLike(texts))
          /\ coverage_list[t] = SumOf(attention_list, t, ZerosLike(texts))
    /\ pc = "done" =>
          \A t \in 1..Len(result[3]) :
              result[3][t] = SumOf(result[2], t, ZerosLike(texts))

C1_Witness ==
    /\ pc = "done"
    /\ Len(result[3]) >= 3
    /\ result[3][1] = result[2][1]
    /\ result[3][1] # ZerosLike(texts)
    /\ result[3][3] = Add(Add(result[2][1], result[2][2]), result[2][3])
    /\ result[3][3] # Add(result[2][1], result[2][2])

\* the (hidden, cell) pair passed as hidden_in, laid out like the Decoder's
\* hidden_out = cat((hidden, cell), dim=1)
StateOf(hidden_in) == Cat1(View(hidden_in[1], hidden_size), View(hidden_in[2], hidden_size))

\* C2: the state passed to the Decoder at step 0 is the Encoder's reduced
\* state, and at every step i >= 1 it is the state the Decoder produced at
\* step i-1.
C2_StateThreaded ==
    \A t \in Steps :
        StateOf(calls[t].hidden_in) =
            IF t = 1 THEN StateOf(hidden) ELSE calls[t - 1].hidden_out

C3_Counts ==
    ValidInputs =>
        /\ pc # "failed"
        /\ Len(calls) = i
        /\ i <= max_summary_length
        /\ pc = "done" =>
              /\ Len(calls) = max_summary_length
              /\ \A n \in 1..3 : Len(result[n]) = max_summary_length
              /\ \A t \in 1..max_summary_length :
                    /\ result[1][t] = calls[t].x
                    /\ result[2][t] = calls[t].attention
                    /\ result[3][t] = calls[t].coverage

\* what a step of a run does to the loop counter
C3_Progress ==
    \/ pc = "start" /\ pc' = "loop" /\ i' = 0
    \/ /\ pc = "loop" /\ i < max_summary_length
       /\ pc' = "loop" /\ i' = i + 1
       /\ Len(outputs') = i' /\ Len(attention_list') = i' /\ Len(coverage_list') = i'
    \/ pc = "loop" /\ i = max_summary_length /\ pc' = "done" /\ i' = i

\* C3: on valid inputs the run never fails; every step either enters the
\* loop, completes one Decoder step (the counter grows by one, whatever the
\* tokens and distributions are) or, the counter being max_summary_length,
\* returns; what it returns is three lists of max_summary_length entries,
\* entry i being what decode step i produced.
C3_RunsFullLength == []C3_Counts /\ [][ValidInputs => C3_Progress]_vars

C3_Witness ==
    /\ ValidInputs
    /\ pc = "done"
    /\ max_summary_length = MaxSummaryLength
    /\ Len(result[1]) = MaxSummaryLength

\* C4: the token tensor given to the Decoder at step i is row i of summaries.
C4_TeacherForcing ==
    \A t \in Steps : calls[t].x_in = Row(summaries, t - 1)

C4_Witness ==
    /\ Len(calls) >= 2
    /\ calls[2].x_in # calls[1].x_in
    /\ calls[2].x_in = Row(summaries, 1)
    /\ calls[1].x # calls[2].x

\* the attention score of source position p of batch element b at the call c,
\* computed for that one element alone (no flattening)
ScoreOf(c, p, b) ==
    LET w  == 2 * hidden_size
        h1 == Tensor2(1, w, LAMBDA r, f : Get2(c.hidden_out, b, f))
        e1 == Tensor3(1, 1, w, LAMBDA r, q, f : Get3(encoder_out, b, p, f))
        c1 == Tensor2(1, 1, LAMBDA r, f : Get2(c.coverage_in, p, b))
        t  == Add(Add(Encoder_linear(e1), View(Attention_features(h1), w)),
                  Attention_coverage(c1))
    IN  Get2(Attention_score(MapTanh(t)), 0, 0)

\* exp of the scores of the source positions of batch element b at the call c
ExpScores(c, b) ==
    Contiguous([p \in 1..texts.shape[1] |-> Num(Exp(ScoreOf(c, p - 1, b)))])

\* C5: at every step, for every batch element b the attention weights over
\* the source positions of b are non-negative, sum to 1, are the normalised
\* scores of b's own positions, and weight (p, b) multiplies encoder output
\* (b, p) in the context sum.
C5_AttentionPerBatch ==
    \A t \in Steps :
        LET c == calls[t]
            S == texts.shape[1]
        IN  /\ c.attention.shape = <<S, batch_size>>
            /\ \A b \in 0..(batch_size - 1) :
                  /\ LET e == ExpScores(c, b)
                         z == RSum(e)[1]
                     IN  \A p \in 0..(S - 1) :
                            /\ RLeq(Zero, Get2(c.attention, p, b))
                            /\ Get2(c.attention, p, b) = RDiv(e[p + 1][1], z)
                  /\ RSum([p \in 1..S |-> Get2(c.attention, p - 1, b)]) = One
                  /\ \A f \in 0..(2 * hidden_size - 1) :
                        Get2(c.context, b, f) =
                            RSum([p \in 1..S |->
                                    RMul(Get2(c.attention, p - 1, b),
                                         Get3(encoder_out, b, p - 1, f))])

C5_Witness ==
    /\ Len(calls) >= 1
    /\ batch_size >= 2
    /\ texts.shape[1] >= 2
    /\ \E b1, b2 \in 0..(batch_size - 1), p \in 0..(texts.shape[1] - 1) :
          /\ Get2(calls[1].attention, p, b1) # Get2(calls[1].attention, p, b2)
          /\ Get2(calls[1].attention, p, b1) # RDiv(1, texts.shape[1])

\* C6: every row of every vocabulary distribution the Decoder returned has
\* non-negative entries that sum to 1.
C6_DistributionRows ==
    \A t \in 1..Len(outputs) :
        /\ outputs[t].shape = <<batch_size, vocab_size>>
        /\ \A b \in 0..(batch_size - 1) :
              /\ \A v \in 0..(vocab_size - 1) : RLeq(Zero, Get2(outputs[t], b, v))
              /\ RSum([v \in 1..vocab_size |-> Get2(outputs[t], b, v - 1)]) = One

C6_Witness ==
    /\ Len(outputs) >= 2
    /\ batch_size >= 2
    /\ \E b \in 0..(batch_size - 1), v1, v2 \in 0..(vocab_size - 1) :
          Get2(outputs[2], b, v1) # Get2(outputs[2], b, v2)

\* C7: whenever the number of rows of summaries differs from
\* max_summary_length, the run does not return.
C7_LengthMismatchFatal ==
    summaries.shape[1] # max_summary_length => (pc # "done" /\ result = NoResult)

BatchMismatch == texts.shape[2] # batch_size \/ summaries.shape[2] # batch_size

C9_CoverageMonotone ==
    /\ pc # "start" /\ calls = <<>> => coverage = ZerosLike(texts)
    /\ \A t \in Steps :
          /\ calls[t].coverage_in =
                 IF t = 1 THEN ZerosLike(texts) ELSE calls[t - 1].coverage
          /\ \A n \in 1..Numel(calls[t].coverage) :
                /\ RLeq(calls[t].coverage_in.data[n], calls[t].coverage.data[n])
                /\ calls[t].coverage.data[n] =
                       RAdd(calls[t].coverage_in.data[n], calls[t].attention.data[n])
          /\ t = Len(calls) => coverage = calls[t].coverage

C9_Witness ==
    /\ Len(calls) >= 2
    /\ \E n \in 1..Numel(coverage) :
          /\ calls[1].coverage.data[n] # Zero
          /\ calls[2].coverage.data[n] # calls[1].coverage.data[n]
          /\ ~RLeq(One, calls[1].coverage.data[n])
          /\ RLeq(One, calls[2].coverage.data[n])

\* t with every column but column b shifted by delta (modulo vocab_size)
OtherColumns(t, b, delta) ==
    Tensor2(t.shape[1], t.shape[2],
            LAMBDA r, c : IF c = b THEN Get2(t, r, c)
                          ELSE (Get2(t, r, c) + delta) % vocab_size)

\* the locals of forward after n iterations of the loop
RECURSIVE Forward_loop(_, _, _, _)
Forward_loop(L, summ, bsz, n) ==
    IF n = 0 THEN L ELSE Forward_loop(Forward_step(L, summ, bsz), summ, bsz, n - 1)

\* the locals of a whole run of forward on (txt, summ)
Forward_run(txt, summ) ==
    Forward_loop(Forward_begin(txt, batch_size), summ, batch_size, max_summary_length)

Column(t, b) == [r \in 1..t.shape[1] |-> Get2(t, r - 1, b)]

\* C10: a second run with the same parameters and shapes whose inputs agree
\* with this run's on batch column b returns, at every step, the same
\* distribution row, attention column and coverage column for b.
C10_NoCrossBatch ==
    pc = "done" =>
        \A b \in 0..(batch_size - 1), delta \in 1..(vocab_size - 1) :
            LET R == Forward_run(OtherColumns(texts, b, delta),
                                 OtherColumns(summaries, b, delta))
            IN  /\ R.pc = "loop"
                /\ \A t \in 1..max_summary_length :
                      /\ Row(R.outputs[t], b) = Row(outputs[t], b)
                      /\ Column(R.attention_list[t], b) = Column(attention_list[t], b)
                      /\ Column(R.coverage_list[t], b) = Column(coverage_list[t], b)

C10_Witness ==
    /\ pc = "done"
    /\ batch_size >= 2
    /\ texts.shape[1] >= 2
    /\ LET R == Forward_run(OtherColumns(texts, 0, 1), OtherColumns(summaries, 0, 1))
       IN  /\ Row(R.outputs[1], 1) # Row(outputs[1], 1)
           /\ Column(R.attention_list[1], 1) # Column(attention_list[1], 1)
           /\ Row(R.outputs[1], 0) = Row(outputs[1], 0)

====
